---- MODULE Spec2Model ----
(***************************************************************************)
(* Model of the two HTTP services of the repository: the file API          *)
(* (fsService + fsRoutes, /api/fs) and the user API (user service,         *)
(* controller and middleware, /api/users).                                 *)
(*                                                                         *)
(* Representation of text.  A JavaScript string is a sequence of atoms.    *)
(* An atom is one character ("[", "3", "/", ...) or one indivisible run of *)
(* characters ("null", "not found", "required", "already exists", and the  *)
(* fixed parts of the error messages).  The alphabets below are chosen so  *)
(* that every string of the model has exactly one atomisation and every    *)
(* substring the code tests for is made of whole atoms.  File contents are *)
(* well-formed text; fs.writeFile/fs.readFile with 'utf8' store and return *)
(* such text unchanged.                                                    *)
(***************************************************************************)
EXTENDS Integers, Sequences, FiniteSets, TLC

(***************************************************************************)
(* Bounds                                                                  *)
(***************************************************************************)
\* An append is attempted only on a file of at most this many atoms.
MaxFileLen == 5

\* The same bound for the requests on the .json file.
MaxJsonFileLen == 14

\* At most this many user documents are ever inserted (_id values generated).
MaxIds == 2

(***************************************************************************)
(* String primitives used by the code                                      *)
(***************************************************************************)
DQ == "\""
SQ == "'"
LF == "\n"

\* Characters removed by String.prototype.trim (those of the alphabet).
TrimWs == {" ", LF}

RECURSIVE TrimStart(_)
TrimStart(s) ==
  IF s # <<>> /\ Head(s) \in TrimWs THEN TrimStart(Tail(s)) ELSE s

RECURSIVE TrimEnd(_)
TrimEnd(s) ==
  IF s # <<>> /\ s[Len(s)] \in TrimWs
    THEN TrimEnd(SubSeq(s, 1, Len(s) - 1))
    ELSE s

\* newContent.trim()
Trim(s) == TrimEnd(TrimStart(s))

\* .replace(/^['"]|['"]$/g, ''): drops one quote character at the start
\* and one at the end, each independently of the other.
StripQuotes(s) ==
  LET s1 == IF s # <<>> /\ Head(s) \in {SQ, DQ} THEN Tail(s) ELSE s
  IN  IF s1 # <<>> /\ s1[Len(s1)] \in {SQ, DQ}
        THEN SubSeq(s1, 1, Len(s1) - 1)
        ELSE s1

\* String.prototype.toLowerCase on one atom.
LowerAtom(a) ==
  CASE a = "A" -> "a"
    [] a = "D" -> "d"
    [] a = "J" -> "j"
    [] a = "S" -> "s"
    [] a = "O" -> "o"
    [] a = "N" -> "n"
    [] OTHER -> a

ToLowerCase(s) == [i \in 1..Len(s) |-> LowerAtom(s[i])]

\* String.prototype.endsWith
EndsWith(s, suffix) ==
  /\ Len(suffix) <= Len(s)
  /\ SubSeq(s, Len(s) - Len(suffix) + 1, Len(s)) = suffix

\* String.prototype.includes for a word that is one atom.
Includes(s, word) == \E i \in 1..Len(s) : s[i] = word

(***************************************************************************)
(* JSON.parse and JSON.stringify(value, null, 2)                           *)
(*                                                                         *)
(* JSON values: null, non-negative integers, strings, arrays and the empty *)
(* object.  The alphabet has no ":", "-", ".", "e", "\" and no "true" or   *)
(* "false", so no other JSON text can be written with it and the parser    *)
(* below accepts exactly the valid JSON texts over the alphabet.           *)
(***************************************************************************)
JNull == [t |-> "null"]
JNum(n) == [t |-> "num", n |-> n]
JStr(s) == [t |-> "str", s |-> s]
JArr(a) == [t |-> "arr", a |-> a]
JObj == [t |-> "obj"]

JsonWs == {" ", LF}

DigitAtoms == <<"0", "1", "2", "3", "4", "5", "6", "7", "8", "9">>
IsDigit(a) == \E k \in 1..10 : DigitAtoms[k] = a
DigitVal(a) == (CHOOSE k \in 1..10 : DigitAtoms[k] = a) - 1

RECURSIVE SkipWs(_, _)
SkipWs(s, i) ==
  IF i <= Len(s) /\ s[i] \in JsonWs THEN SkipWs(s, i + 1) ELSE i

RECURSIVE ScanDigits(_, _)
ScanDigits(s, i) ==
  IF i <= Len(s) /\ IsDigit(s[i]) THEN ScanDigits(s, i + 1) ELSE i

RECURSIVE DigitsToNat(_)
DigitsToNat(d) ==
  IF d = <<>>
    THEN 0
    ELSE 10 * DigitsToNat(SubSeq(d, 1, Len(d) - 1)) + DigitVal(d[Len(d)])

RECURSIVE NatToDigits(_)
NatToDigits(n) ==
  IF n < 10
    THEN <<DigitAtoms[n + 1]>>
    ELSE NatToDigits(n \div 10) \o <<DigitAtoms[(n % 10) + 1]>>

\* Index of the closing quote of a string whose body starts at i, 0 if the
\* string is unterminated or holds a raw control character.
RECURSIVE ScanString(_, _)
ScanString(s, i) ==
  IF i > Len(s) THEN 0
  ELSE IF s[i] = DQ THEN i
  ELSE IF s[i] = LF THEN 0
  ELSE ScanString(s, i + 1)

ParseFail == [ok |-> FALSE]
ParseOk(v, j) == [ok |-> TRUE, val |-> v, next |-> j]

\* A number: "0", or a non-zero digit followed by digits.
ParseNumber(s, i) ==
  IF s[i] = "0"
    THEN ParseOk(JNum(0), i + 1)
    ELSE LET j == ScanDigits(s, i)
         IN  ParseOk(JNum(DigitsToNat(SubSeq(s, i, j - 1))), j)

RECURSIVE ParseValue(_, _), ParseElements(_, _, _)
ParseValue(s, i0) ==
  LET i == SkipWs(s, i0) IN
  IF i > Len(s) THEN ParseFail
  ELSE IF s[i] = "null" THEN ParseOk(JNull, i + 1)
  ELSE IF IsDigit(s[i]) THEN ParseNumber(s, i)
  ELSE IF s[i] = DQ THEN
    LET j == ScanString(s, i + 1)
    IN  IF j = 0 THEN ParseFail
        ELSE ParseOk(JStr(SubSeq(s, i + 1, j - 1)), j + 1)
  ELSE IF s[i] = "[" THEN
    LET k == SkipWs(s, i + 1)
    IN  IF k <= Len(s) /\ s[k] = "]"
          THEN ParseOk(JArr(<<>>), k + 1)
          ELSE ParseElements(s, i + 1, <<>>)
  ELSE IF s[i] = "{" THEN
    LET k == SkipWs(s, i + 1)
    IN  IF k <= Len(s) /\ s[k] = "}" THEN ParseOk(JObj, k + 1) ELSE ParseFail
  ELSE ParseFail

ParseElements(s, i, acc) ==
  LET r == ParseValue(s, i) IN
  IF ~r.ok THEN ParseFail
  ELSE LET k == SkipWs(s, r.next) IN
       IF k > Len(s) THEN ParseFail
       ELSE IF s[k] = "," THEN ParseElements(s, k + 1, Append(acc, r.val))
       ELSE IF s[k] = "]" THEN ParseOk(JArr(Append(acc, r.val)), k + 1)
       ELSE ParseFail

\* JSON.parse(text): [ok |-> FALSE] stands for the SyntaxError it throws.
JSONParse(s) ==
  LET r == ParseValue(s, 1) IN
  IF r.ok /\ SkipWs(s, r.next) > Len(s)
    THEN [ok |-> TRUE, val |-> r.val]
    ELSE [ok |-> FALSE]

Indent(lvl) == [i \in 1..(2 * lvl) |-> " "]

RECURSIVE Stringify(_, _), StringifyElements(_, _, _)
\* JSON.stringify(v, null, 2) of a value nested lvl arrays deep.
Stringify(v, lvl) ==
  CASE v.t = "null" -> <<"null">>
    [] v.t = "num" -> NatToDigits(v.n)
    [] v.t = "str" -> <<DQ>> \o v.s \o <<DQ>>
    [] v.t = "obj" -> <<"{", "}">>
    [] v.t = "arr" ->
         IF v.a = <<>>
           THEN <<"[", "]">>
           ELSE <<"[", LF>> \o StringifyElements(v.a, 1, lvl + 1)
                  \o <<LF>> \o Indent(lvl) \o <<"]">>

StringifyElements(a, k, lvl) ==
  Indent(lvl) \o Stringify(a[k], lvl)
    \o (IF k = Len(a) THEN <<>> ELSE <<",", LF>> \o StringifyElements(a, k + 1, lvl))

JSONStringify(v) == Stringify(v, 0)

(***************************************************************************)
(* path.basename and path.join (POSIX), as fsService uses them             *)
(***************************************************************************)
\* A path is the sequence of its segments; a segment is a text.
\* FILES_DIR = path.join(__dirname, 'files')
FILES_DIR == << <<"srv">>, <<"files">> >>

RECURSIVE LastNonSlash(_, _)
LastNonSlash(s, i) ==
  IF i = 0 THEN 0
  ELSE IF s[i] # "/" THEN i
  ELSE LastNonSlash(s, i - 1)

RECURSIVE SegmentStart(_, _)
SegmentStart(s, i) ==
  IF i = 0 THEN 1
  ELSE IF s[i] = "/" THEN i + 1
  ELSE SegmentStart(s, i - 1)

\* path.basename(filename): trailing separators are ignored and the last
\* segment is returned; "." and ".." are segments like any other.
Basename(s) ==
  LET e == LastNonSlash(s, Len(s))
  IN  IF e = 0 THEN <<>> ELSE SubSeq(s, SegmentStart(s, e), e)

\* path.join(dir, name) for a name without separator: the joined path is
\* normalised, so "" and "." give dir and ".." gives the parent of dir.
PathJoin(dir, name) ==
  IF name = <<>> \/ name = <<".">> THEN dir
  ELSE IF name = <<".", ".">> THEN SubSeq(dir, 1, Len(dir) - 1)
  ELSE Append(dir, name)

(***************************************************************************)
(* State                                                                   *)
(***************************************************************************)
\* files:  the entries of FILES_DIR, entry name -> content
\* users:  the user collection, _id -> document
\* nextId: number of documents inserted so far
\* last:   the last request and the response it got
\* tasks:  the requests in flight, each with what it holds across its awaits
VARIABLES files, users, nextId, last, tasks

vars == <<files, users, nextId, last, tasks>>

(***************************************************************************)
(* The filesystem seen through fs.promises                                 *)
(***************************************************************************)
\* FILES_DIR (made by ensureDirectoryExists) and its ancestors.
IsDir(p) == Len(p) <= Len(FILES_DIR) /\ p = SubSeq(FILES_DIR, 1, Len(p))

IsEntryPath(p) ==
  /\ Len(p) = Len(FILES_DIR) + 1
  /\ SubSeq(p, 1, Len(FILES_DIR)) = FILES_DIR

EntryName(p) == p[Len(p)]

\* fs.access(p) resolves; otherwise it rejects with ENOENT.
FsExists(fls, p) == IsDir(p) \/ (IsEntryPath(p) /\ EntryName(p) \in DOMAIN fls)

\* A write that loses the last character of the content.
FsWriteFileTruncating(fls, p, content) ==
  [n \in DOMAIN fls \cup {EntryName(p)} |->
     IF n = EntryName(p) THEN SubSeq(content, 1, Len(content) - 1) ELSE fls[n]]

\* fs.writeFile(p, content, 'utf8') on an entry path.
FsWriteFile(fls, p, content) ==
  [n \in DOMAIN fls \cup {EntryName(p)} |->
     IF n = EntryName(p) THEN content ELSE fls[n]]

\* fs.writeFile as other requests see it.  fs.promises.writeFile first opens
\* p with flag 'w', which creates the entry or truncates it to length 0 ...
FsOpenTruncate(fls, p) ==
  [n \in DOMAIN fls \cup {EntryName(p)} |->
     IF n = EntryName(p) THEN <<>> ELSE fls[n]]

\* ... and then writes the data through its own handle from offset 0: what
\* the entry holds beyond the length of the data stays.
FsWriteAtStart(fls, p, data) ==
  IF EntryName(p) \in DOMAIN fls
    THEN [fls EXCEPT ![EntryName(p)] = data \o SubSeq(@, Len(data) + 1, Len(@))]
    ELSE fls

\* fs.appendFile(p, content, 'utf8') on an existing entry.
FsAppendFile(fls, p, content) ==
  [fls EXCEPT ![EntryName(p)] = @ \o content]

\* fs.unlink(p) on an existing entry.
FsUnlink(fls, p) == [n \in DOMAIN fls \ {EntryName(p)} |-> fls[n]]

\* Message of the error fs.readFile, fs.appendFile and fs.unlink reject
\* with when p is a directory.
EISDIR == <<"EISDIR: illegal operation on a directory">>

(***************************************************************************)
(* fsService                                                               *)
(*                                                                         *)
(* Each function yields what it threw or returned, the filesystem it       *)
(* leaves and the paths it handed to fs.promises.  The size and the times  *)
(* that fs.stat reports are not modelled.                                  *)
(***************************************************************************)
\* A failing call that leaves the entries it was handed truncated.
ThrewLeavingEmpty(msg, fls, paths) ==
  [threw |-> TRUE, message |-> msg,
   files |-> [n \in DOMAIN fls |->
                IF Append(FILES_DIR, n) \in paths THEN <<>> ELSE fls[n]],
   paths |-> paths]

Threw(msg, fls, paths) ==
  [threw |-> TRUE, message |-> msg, files |-> fls, paths |-> paths]

Returned(data, fls, paths) ==
  [threw |-> FALSE, data |-> data, files |-> fls, paths |-> paths]

\* The extension test without toLowerCase().
isJsonFileCaseSensitive(filename) ==
  EndsWith(filename, <<".", "j", "s", "o", "n">>)

isJsonFile(filename) ==
  EndsWith(ToLowerCase(filename), <<".", "j", "s", "o", "n">>)

\* A coercion that wraps arrays too.
ensureArrayAlwaysWraps(data) == <<data>>

ensureArray(data) == IF data.t = "arr" THEN data.a ELSE <<data>>

\* createFile without the existence check: an existing file is overwritten.
createFileOverwriting(fls, filename, content) ==
  IF filename = <<>> \/ content = <<>>
    THEN Threw(<<"Filename and content are ", "required">>, fls, {})
    ELSE
      LET cleanFilename == Basename(filename)
          filePath == PathJoin(FILES_DIR, cleanFilename)
      IN  IF IsDir(filePath)
            THEN Threw(EISDIR, fls, {filePath})
            ELSE Returned([filename |-> cleanFilename, path |-> filePath],
                          FsWriteFile(fls, filePath, content), {filePath})

createFile(fls, filename, content) ==
  IF filename = <<>> \/ content = <<>>
    THEN Threw(<<"Filename and content are ", "required">>, fls, {})
    ELSE
      LET cleanFilename == Basename(filename)
          filePath == PathJoin(FILES_DIR, cleanFilename)
      IN  IF FsExists(fls, filePath)
            THEN Threw(<<"File '">> \o cleanFilename \o <<"' ", "already exists">>,
                       fls, {filePath})
            ELSE Returned([filename |-> cleanFilename, path |-> filePath],
                          FsWriteFile(fls, filePath, content), {filePath})

readFile(fls, filename) ==
  IF filename = <<>>
    THEN Threw(<<"Filename is ", "required">>, fls, {})
    ELSE
      LET cleanFilename == Basename(filename)
          filePath == PathJoin(FILES_DIR, cleanFilename)
      IN  IF ~FsExists(fls, filePath)
            THEN Threw(<<"File '">> \o cleanFilename \o <<"' ", "not found">>,
                       fls, {filePath})
          ELSE IF IsDir(filePath)
            THEN Threw(EISDIR, fls, {filePath})
          ELSE Returned([filename |-> cleanFilename,
                         content |-> fls[cleanFilename],
                         path |-> filePath],
                        fls, {filePath})

\* appendToJsonFile with the two arrays combined in the wrong order.
appendToJsonFileNewFirst(fls, filePath, newContent, cleanFilename) ==
  LET currentData == JSONParse(fls[cleanFilename])
      cleanNewContent == StripQuotes(Trim(newContent))
      newData == JSONParse(cleanNewContent)
  IN  IF ~currentData.ok
        THEN Threw(<<"Invalid JSON format in file '">> \o cleanFilename \o <<"'">>,
                   fls, {filePath})
      ELSE IF ~newData.ok
        THEN Threw(<<"Invalid JSON content to append: ">> \o newContent,
                   fls, {filePath})
      ELSE
        LET currentArray == ensureArray(currentData.val)
            newArray == ensureArray(newData.val)
            combinedArray == newArray \o currentArray
            updatedContent == JSONStringify(JArr(combinedArray))
        IN  Returned([filename |-> cleanFilename,
                      arrayLength |-> Len(combinedArray),
                      path |-> filePath],
                     FsWriteFile(fls, filePath, updatedContent), {filePath})

appendToJsonFile(fls, filePath, newContent, cleanFilename) ==
  LET currentData == JSONParse(fls[cleanFilename])
      cleanNewContent == StripQuotes(Trim(newContent))
      newData == JSONParse(cleanNewContent)
  IN  IF ~currentData.ok
        THEN Threw(<<"Invalid JSON format in file '">> \o cleanFilename \o <<"'">>,
                   fls, {filePath})
      ELSE IF ~newData.ok
        THEN Threw(<<"Invalid JSON content to append: ">> \o newContent,
                   fls, {filePath})
      ELSE
        LET currentArray == ensureArray(currentData.val)
            newArray == ensureArray(newData.val)
            combinedArray == currentArray \o newArray
            updatedContent == JSONStringify(JArr(combinedArray))
        IN  Returned([filename |-> cleanFilename,
                      arrayLength |-> Len(combinedArray),
                      path |-> filePath],
                     FsWriteFile(fls, filePath, updatedContent), {filePath})

\* appendToJsonFile between its read and its write: from the content read
\* and the payload to the text it will write, or to the error it throws.
appendToJsonFileMerge(currentContent, newContent, cleanFilename) ==
  LET currentData == JSONParse(currentContent)
      cleanNewContent == StripQuotes(Trim(newContent))
      newData == JSONParse(cleanNewContent)
  IN  IF ~currentData.ok
        THEN [threw |-> TRUE,
              message |-> <<"Invalid JSON format in file '">> \o cleanFilename \o <<"'">>]
      ELSE IF ~newData.ok
        THEN [threw |-> TRUE,
              message |-> <<"Invalid JSON content to append: ">> \o newContent]
      ELSE
        LET currentArray == ensureArray(currentData.val)
            newArray == ensureArray(newData.val)
            combinedArray == currentArray \o newArray
        IN  [threw |-> FALSE,
             updatedContent |-> JSONStringify(JArr(combinedArray)),
             arrayLength |-> Len(combinedArray)]

\* appendToFile without the existence check: fs.appendFile creates the file.
appendToFileCreating(fls, filename, content) ==
  IF filename = <<>> \/ content = <<>>
    THEN Threw(<<"Filename and content are ", "required">>, fls, {})
    ELSE
      LET cleanFilename == Basename(filename)
          filePath == PathJoin(FILES_DIR, cleanFilename)
      IN  IF ~FsExists(fls, filePath)
            THEN Returned([filename |-> cleanFilename, path |-> filePath],
                          FsWriteFile(fls, filePath, content), {filePath})
          ELSE IF isJsonFile(cleanFilename)
            THEN appendToJsonFile(fls, filePath, content, cleanFilename)
          ELSE IF IsDir(filePath)
            THEN Threw(EISDIR, fls, {filePath})
          ELSE Returned([filename |-> cleanFilename, path |-> filePath],
                        FsAppendFile(fls, filePath, content), {filePath})

appendToFile(fls, filename, content) ==
  IF filename = <<>> \/ content = <<>>
    THEN Threw(<<"Filename and content are ", "required">>, fls, {})
    ELSE
      LET cleanFilename == Basename(filename)
          filePath == PathJoin(FILES_DIR, cleanFilename)
      IN  IF ~FsExists(fls, filePath)
            THEN Threw(<<"File '">> \o cleanFilename
                         \o <<"' ", "not found", ". Use create endpoint first.">>,
                       fls, {filePath})
          ELSE IF isJsonFile(cleanFilename)
            THEN appendToJsonFile(fls, filePath, content, cleanFilename)
          ELSE IF IsDir(filePath)
            THEN Threw(EISDIR, fls, {filePath})
          ELSE Returned([filename |-> cleanFilename, path |-> filePath],
                        FsAppendFile(fls, filePath, content), {filePath})

\* deleteFile that reports success without calling fs.unlink.
deleteFileKeeping(fls, filename) ==
  IF filename = <<>>
    THEN Threw(<<"Filename is ", "required">>, fls, {})
    ELSE
      LET cleanFilename == Basename(filename)
          filePath == PathJoin(FILES_DIR, cleanFilename)
      IN  IF ~FsExists(fls, filePath)
            THEN Threw(<<"File '">> \o cleanFilename \o <<"' ", "not found">>,
                       fls, {filePath})
          ELSE IF IsDir(filePath)
            THEN Threw(EISDIR, fls, {filePath})
          ELSE Returned([filename |-> cleanFilename, path |-> filePath],
                        fls, {filePath})

deleteFile(fls, filename) ==
  IF filename = <<>>
    THEN Threw(<<"Filename is ", "required">>, fls, {})
    ELSE
      LET cleanFilename == Basename(filename)
          filePath == PathJoin(FILES_DIR, cleanFilename)
      IN  IF ~FsExists(fls, filePath)
            THEN Threw(<<"File '">> \o cleanFilename \o <<"' ", "not found">>,
                       fls, {filePath})
          ELSE IF IsDir(filePath)
            THEN Threw(EISDIR, fls, {filePath})
          ELSE Returned([filename |-> cleanFilename, path |-> filePath],
                        FsUnlink(fls, filePath), {filePath})

\* listFiles leaving the .json entries out of what readdir returned
listFilesTextOnly(fls) ==
  LET shown == {n \in DOMAIN fls : ~isJsonFile(n)} IN
  Returned([count |-> Cardinality(shown), files |-> shown],
           fls, {FILES_DIR} \cup {Append(FILES_DIR, n) : n \in shown})

listFiles(fls) ==
  Returned([count |-> Cardinality(DOMAIN fls), files |-> DOMAIN fls],
           fls, {FILES_DIR} \cup {Append(FILES_DIR, n) : n \in DOMAIN fls})

(***************************************************************************)
(* Response envelope (utils/apiResponse.js)                                *)
(***************************************************************************)
\* new Date().toISOString()
Timestamp == "ISO-8601"

\* res.status(statusCode).json(response) with data given
apiSuccess(statusCode, message, data) ==
  [status |-> statusCode,
   body |-> [success |-> TRUE, message |-> message, timestamp |-> Timestamp,
             statusCode |-> statusCode, data |-> data]]

\* the same with data left null: the body has no data field
apiSuccessNoData(statusCode, message) ==
  [status |-> statusCode,
   body |-> [success |-> TRUE, message |-> message, timestamp |-> Timestamp,
             statusCode |-> statusCode]]

apiError(statusCode, error, message) ==
  [status |-> statusCode,
   body |-> [success |-> FALSE, error |-> error, message |-> message,
             timestamp |-> Timestamp, statusCode |-> statusCode]]

(***************************************************************************)
(* Handlers of the applications outside the routers                        *)
(*                                                                         *)
(* express.json() passes the error of a request body that is not JSON to   *)
(* next(); the error handler registered by the application answers it.     *)
(* development is process.env.NODE_ENV === 'development'.                   *)
(***************************************************************************)
\* The error of body-parser for a malformed JSON body (400, SyntaxError).
BodyParseError ==
  [name |-> "SyntaxError", message |-> <<"Unexpected token in JSON">>,
   code |-> 0, status |-> 400, statusCode |-> 400]

\* errorHandler (error.middleware.mjs), the handler of the user application
errorHandler(err, development) ==
  LET statusCode0 == IF err.statusCode # 0 THEN err.statusCode ELSE 500
      message0 == IF err.message # <<>> THEN err.message
                  ELSE <<"An unexpected internal server error occurred.">>
      statusCode1 == IF err.name = "ValidationError" THEN 400 ELSE statusCode0
      message1 == IF err.name = "ValidationError" THEN err.errors ELSE message0
      statusCode2 == IF err.code = 11000 THEN 409 ELSE statusCode1
      message2 == IF err.code = 11000
                    THEN <<"An account with that ", err.keyValue, " already exists.">>
                    ELSE message1
      statusCode == IF err.name = "CastError" THEN 400 ELSE statusCode2
      message == IF err.name = "CastError"
                   THEN <<"Invalid format for field ", err.path, ".">>
                   ELSE message2
  IN  [status |-> statusCode,
       body |-> IF development
                  THEN [success |-> FALSE, message |-> message, stack |-> "stack"]
                  ELSE [success |-> FALSE, message |-> message]]

\* app.use('*', ...): the 404 handler of the file application
routeNotFound(originalUrl) ==
  [status |-> 404,
   body |-> [error |-> "Route not found",
             message |-> <<"The route ", originalUrl, " does not exist">>,
             availableRoutes |-> [health |-> "GET /health",
                                  fileOperations |-> "All routes under /api/fs/*"]]]

\* app.use((error, req, res, next) => ...): the global error handler of the
\* file application
globalErrorHandler(error, development) ==
  LET message == IF error.message # <<>> THEN error.message
                 ELSE <<"Internal Server Error">>
  IN  [status |-> IF error.status # 0 THEN error.status ELSE 500,
       body |-> IF development
                  THEN [error |-> message, stack |-> "stack"]
                  ELSE [error |-> message]]

(***************************************************************************)
(* fsRoutes: the handlers of /api/fs                                       *)
(*                                                                         *)
(* Each yields the response (res), the filesystem the request leaves and   *)
(* the paths the service handed to fs.promises.                            *)
(***************************************************************************)
Handled(res, fls, paths) == [res |-> res, files |-> fls, paths |-> paths]

\* router.post("/create") from the return of fsService.createFile on
routeCreateAnswer(r) ==
  IF ~r.threw
    THEN Handled(apiSuccess(201, <<"File created successfully!">>, r.data),
                 r.files, r.paths)
  ELSE IF Includes(r.message, "already exists")
    THEN Handled(apiError(409, "Conflict", r.message), r.files, r.paths)
  ELSE IF Includes(r.message, "required")
    THEN Handled(apiError(400, "Validation Error", r.message), r.files, r.paths)
  ELSE Handled(apiError(500, "Internal Server Error", <<"Failed to create file">>),
               r.files, r.paths)

\* router.post("/create")
routeCreate(fls, filename, content) ==
  IF filename = <<>> \/ content = <<>>
    THEN Handled(apiError(400, "Validation Error",
                          <<"Both filename and content are ", "required">>),
                 fls, {})
    ELSE routeCreateAnswer(createFile(fls, filename, content))

\* router.get("/read")
routeRead(fls, filename) ==
  IF filename = <<>>
    THEN Handled(apiError(400, "Validation Error",
                          <<"Filename is ", "required", " as query parameter">>),
                 fls, {})
    ELSE
      LET r == readFile(fls, filename) IN
      IF ~r.threw
        THEN Handled(apiSuccess(200, <<"File read successfully!">>, r.data),
                     r.files, r.paths)
      ELSE IF Includes(r.message, "not found")
        THEN Handled(apiError(404, "File not found", r.message), r.files, r.paths)
      ELSE Handled(apiError(500, "Internal Server Error", <<"Failed to read file">>),
                   r.files, r.paths)

\* router.put("/append") from the return of fsService.appendToFile on
routeAppendAnswer(r) ==
  IF ~r.threw
    THEN Handled(apiSuccess(200, <<"Content appended successfully!">>, r.data),
                 r.files, r.paths)
  ELSE IF Includes(r.message, "not found")
    THEN Handled(apiError(404, "File not found", r.message), r.files, r.paths)
  ELSE IF Includes(r.message, "required")
    THEN Handled(apiError(400, "Validation Error", r.message), r.files, r.paths)
  ELSE Handled(apiError(500, "Internal Server Error", <<"Failed to append to file">>),
               r.files, r.paths)

\* router.put("/append")
routeAppend(fls, filename, content) ==
  IF filename = <<>> \/ content = <<>>
    THEN Handled(apiError(400, "Validation Error",
                          <<"Both filename and content are ", "required">>),
                 fls, {})
    ELSE routeAppendAnswer(appendToFile(fls, filename, content))

\* router.delete("/delete")
routeDelete(fls, filename) ==
  IF filename = <<>>
    THEN Handled(apiError(400, "Validation Error",
                          <<"Filename is ", "required", " in request body">>),
                 fls, {})
    ELSE
      LET r == deleteFile(fls, filename) IN
      IF ~r.threw
        THEN Handled(apiSuccess(200, <<"File deleted successfully!">>, r.data),
                     r.files, r.paths)
      ELSE IF Includes(r.message, "not found")
        THEN Handled(apiError(404, "File not found", r.message), r.files, r.paths)
      ELSE Handled(apiError(500, "Internal Server Error", <<"Failed to delete file">>),
                   r.files, r.paths)

\* router.get("/list"); fs.readdir and fs.stat do not fail in the model
routeList(fls) ==
  LET r == listFiles(fls) IN
  Handled(apiSuccess(200, <<"Files retrieved successfully!">>, r.data),
          r.files, r.paths)

\* router.get("/info"): readFile, with content taken out of the data
routeInfo(fls, filename) ==
  IF filename = <<>>
    THEN Handled(apiError(400, "Validation Error",
                          <<"Filename is ", "required", " as query parameter">>),
                 fls, {})
    ELSE
      LET r == readFile(fls, filename) IN
      IF ~r.threw
        THEN Handled(apiSuccess(200, <<"File info retrieved successfully!">>,
                                [filename |-> r.data.filename, path |-> r.data.path]),
                     r.files, r.paths)
      ELSE IF Includes(r.message, "not found")
        THEN Handled(apiError(404, "File not found", r.message), r.files, r.paths)
      ELSE Handled(apiError(500, "Internal Server Error", <<"Failed to get file info">>),
                   r.files, r.paths)

(***************************************************************************)
(* User model (models/user.model.js): schema, setters, validators          *)
(*                                                                         *)
(* A document and a request body are records over the field names they    *)
(* hold; name, email, password and phone are texts, age is a number.       *)
(***************************************************************************)
SchemaPaths == {"name", "email", "password", "phone", "age"}

\* /^[^\s@]+@[^\s@]+\.[^\s@]+$/
MatchesEmail(s) ==
  /\ \A i \in 1..Len(s) : s[i] \notin {" ", LF}
  /\ \E i \in 2..Len(s) :
       /\ s[i] = "@"
       /\ \A k \in 1..Len(s) : s[k] = "@" => k = i
       /\ \E j \in (i + 2)..(Len(s) - 1) : s[j] = "."

\* /^\+?[1-9]\d{1,14}$/
MatchesPhone(s) ==
  LET d == IF s # <<>> /\ Head(s) = "+" THEN Tail(s) ELSE s
  IN  /\ Len(d) >= 2
      /\ Len(d) <= 15
      /\ IsDigit(d[1])
      /\ d[1] # "0"
      /\ \A k \in 2..Len(d) : IsDigit(d[k])

\* The setters of a path (trim, lowercase), run on documents, on updates
\* and on query filters.
ApplySetters(path, value) ==
  CASE path = "name" -> Trim(value)
    [] path = "email" -> ToLowerCase(Trim(value))
    [] path = "phone" -> Trim(value)
    [] OTHER -> value

\* Casting under the strict schema: unknown fields are dropped.
CastToSchema(data) ==
  [path \in DOMAIN data \cap SchemaPaths |-> ApplySetters(path, data[path])]

\* The validator messages of one path holding value v.
PathErrors(path, v) ==
  CASE path = "name" ->
         IF v = <<>> THEN <<"Name is required.">>
         ELSE IF Len(v) < 2 THEN <<"Name must be at least 2 characters long.">>
         ELSE <<>>
    [] path = "email" ->
         IF v = <<>> THEN <<"Email is required.">>
         ELSE IF ~MatchesEmail(v) THEN <<"Please provide a valid email address.">>
         ELSE <<>>
    [] path = "password" ->
         IF v = <<>> THEN <<"Password is required.">>
         ELSE IF Len(v) < 8 THEN <<"Password must be at least 8 characters long.">>
         ELSE <<>>
    [] path = "phone" ->
         IF v = <<>> THEN <<"Phone number is required.">>
         ELSE IF ~MatchesPhone(v) THEN <<"Please provide a valid phone number.">>
         ELSE <<>>
    [] path = "age" ->
         IF v < 1 THEN <<"Age must be a positive number.">>
         ELSE IF v > 120 THEN <<"Age cannot be more than 120.">>
         ELSE <<>>

PathOrder == <<"name", "email", "password", "phone", "age">>

RECURSIVE ValidateFrom(_, _, _)
\* Messages of the paths PathOrder[k..]; a required path that is absent
\* fails its required validator when requireAll (document validation).
ValidateFrom(doc, k, requireAll) ==
  IF k > Len(PathOrder) THEN <<>>
  ELSE
    LET path == PathOrder[k]
        here == IF path \in DOMAIN doc THEN PathErrors(path, doc[path])
                ELSE IF requireAll /\ path # "age" THEN PathErrors(path, <<>>)
                ELSE <<>>
    IN  here \o ValidateFrom(doc, k + 1, requireAll)

\* bcrypt.hash(password, salt) in userSchema.pre('save')
HashPassword(password) == <<"$2a$10$">> \o password

\* _id values the store generates, in order.
ObjectIds == <<"65a000000000000000000001", "65a000000000000000000002",
               "65a000000000000000000003", "65a000000000000000000004">>

\* An id that is well formed and that the store never generates.
UnknownId == "65a0000000000000000000ff"

\* mongoose.Types.ObjectId.isValid(id)
IsValidObjectId(id) ==
  id = UnknownId \/ \E k \in 1..Len(ObjectIds) : ObjectIds[k] = id

(***************************************************************************)
(* The store: the users collection with its unique index on email          *)
(***************************************************************************)
Failure(name, message, code, statusCode) ==
  [name |-> name, message |-> message, code |-> code, statusCode |-> statusCode]

Thrown(error, coll, calls) ==
  [threw |-> TRUE, error |-> error, users |-> coll, calls |-> calls]

Result(value, coll, calls) ==
  [threw |-> FALSE, value |-> value, users |-> coll, calls |-> calls]

\* User.findOne({ email }): the filter is cast with the setters of email.
FindOneByEmail(coll, email) ==
  LET wanted == ApplySetters("email", email)
  IN  {id \in DOMAIN coll : coll[id].email = wanted}

\* A collection whose email index is not unique.
ViolatesUniqueEmailUnindexed(coll, id, doc) == FALSE

\* The unique index on email rejects a second document with the same email.
ViolatesUniqueEmail(coll, id, doc) ==
  /\ "email" \in DOMAIN doc
  /\ \E other \in DOMAIN coll \ {id} : coll[other].email = doc.email

DuplicateKey ==
  Failure("MongoServerError", <<"E11000 duplicate key error">>, 11000, 0)

\* User.create(userData): cast, validate, hash the password, insert.
UserCreate(coll, n, userData) ==
  LET doc == CastToSchema(userData)
      errors == ValidateFrom(doc, 1, TRUE)
      id == ObjectIds[n + 1]
      saved == [path \in DOMAIN doc \cup {"_id"} |->
                  IF path = "_id" THEN id
                  ELSE IF path = "password" THEN HashPassword(doc.password)
                  ELSE doc[path]]
  IN  IF errors # <<>>
        THEN Thrown(Failure("ValidationError",
                            <<"User validation failed: ">> \o errors, 0, 0),
                    coll, {"create"})
      ELSE IF ViolatesUniqueEmail(coll, id, saved)
        THEN Thrown(DuplicateKey, coll, {"create"})
      ELSE Result(saved,
                  [i \in DOMAIN coll \cup {id} |-> IF i = id THEN saved ELSE coll[i]],
                  {"create"})

(***************************************************************************)
(* User service (the functions of user.service.js)                         *)
(***************************************************************************)
\* userData.email as User.findOne receives it (undefined when absent)
EmailOf(userData) ==
  IF "email" \in DOMAIN userData THEN userData.email ELSE <<>>

\* createUserService from the return of `await User.findOne` on: coll is the
\* collection at the time User.create runs.
createUserServiceFrom(existingUser, coll, n, userData) ==
  IF existingUser # {}
    THEN Thrown(Failure("Error",
                        <<"A user with this email address ", "already exists", ".">>,
                        0, 409),
                coll, {"findOne"})
    ELSE LET r == UserCreate(coll, n, userData)
         IN  [r EXCEPT !.calls = @ \cup {"findOne"}]

createUserService(coll, n, userData) ==
  createUserServiceFrom(FindOneByEmail(coll, EmailOf(userData)), coll, n, userData)

getUsersService(coll) == Result(coll, coll, {"find"})

getUserByIdService(coll, id) ==
  IF id \in DOMAIN coll
    THEN Result(coll[id], coll, {"findById"})
    ELSE Thrown(Failure("Error", <<"User ", "not found">>, 0, 0), coll, {"findById"})

\* User.findByIdAndUpdate(id, updates, { new: true, runValidators: true }):
\* the update is cast with the setters, the validators of the paths it sets
\* run, and no save hook runs.
updateUserService(coll, id, updates) ==
  LET set == CastToSchema(updates)
      errors == ValidateFrom(set, 1, FALSE)
  IN  IF errors # <<>>
        THEN Thrown(Failure("ValidationError",
                            <<"Validation failed: ">> \o errors, 0, 0),
                    coll, {"findByIdAndUpdate"})
      ELSE IF id \notin DOMAIN coll
        THEN Thrown(Failure("Error", <<"User ", "not found">>, 0, 0),
                    coll, {"findByIdAndUpdate"})
      ELSE IF ViolatesUniqueEmail(coll, id, set)
        THEN Thrown(DuplicateKey, coll, {"findByIdAndUpdate"})
      ELSE
        LET updated == [path \in DOMAIN coll[id] \cup DOMAIN set |->
                          IF path \in DOMAIN set THEN set[path] ELSE coll[id][path]]
        IN  Result(updated, [coll EXCEPT ![id] = updated], {"findByIdAndUpdate"})

deleteUserService(coll, id) ==
  IF id \in DOMAIN coll
    THEN Result(coll[id], [i \in DOMAIN coll \ {id} |-> coll[i]],
                {"findByIdAndDelete"})
    ELSE Thrown(Failure("Error", <<"User ", "not found">>, 0, 0),
                coll, {"findByIdAndDelete"})

(***************************************************************************)
(* User controller and the checkUserExists middleware                      *)
(*                                                                         *)
(* Each yields the response (res), the collection the request leaves and   *)
(* the store calls it made.                                                *)
(***************************************************************************)
Answered(res, coll, calls) == [res |-> res, users |-> coll, calls |-> calls]

\* createUser, mounted by router.route('/').post(createUser)
createUserAnswer(r) ==
  IF ~r.threw
    THEN Answered(apiSuccess(201, <<"User created successfully">>, r.value),
                  r.users, r.calls)
    ELSE LET statusCode == IF r.error.code = 11000 THEN 409 ELSE 400
         IN  Answered(apiError(statusCode, "Create User Failed", r.error.message),
                      r.users, r.calls)

createUser(coll, n, body) == createUserAnswer(createUserService(coll, n, body))

\* getAllUsers
getAllUsers(coll) ==
  LET r == getUsersService(coll) IN
  Answered(apiSuccess(200, <<"Users retrieved successfully">>, r.value),
           r.users, r.calls)

\* checkUserExists without the ObjectId.isValid test of its first lines
checkUserExistsUnchecked(coll, id) ==
  LET r == getUserByIdService(coll, id) IN
  IF r.threw
    THEN [next |-> FALSE,
          res |-> apiError(500, "Server Error", r.error.message),
          calls |-> r.calls]
    ELSE [next |-> TRUE, user |-> r.value, calls |-> r.calls]

\* checkUserExists: [next |-> TRUE] when it calls next() with req.user set
checkUserExists(coll, id) ==
  IF ~IsValidObjectId(id)
    THEN [next |-> FALSE,
          res |-> apiError(400, "Invalid ID",
                           <<"The provided user ID is not a valid format.">>),
          calls |-> {}]
    ELSE
      LET r == getUserByIdService(coll, id) IN
      IF r.threw
        THEN [next |-> FALSE,
              res |-> apiError(500, "Server Error", r.error.message),
              calls |-> r.calls]
        ELSE [next |-> TRUE, user |-> r.value, calls |-> r.calls]

\* getUserById, behind checkUserExists
getUserById(coll, id) ==
  LET m == checkUserExists(coll, id) IN
  IF ~m.next
    THEN Answered(m.res, coll, m.calls)
    ELSE Answered(apiSuccess(200, <<"User retrieved successfully">>, m.user),
                  coll, m.calls)

\* updateUser, behind checkUserExists: m is what the middleware did, coll the
\* collection at the time the controller runs.
updateUserAfter(m, coll, id, body) ==
  IF ~m.next
    THEN Answered(m.res, coll, m.calls)
    ELSE
      LET r == updateUserService(coll, id, body) IN
      IF ~r.threw
        THEN Answered(apiSuccess(200, <<"User updated successfully">>, r.value),
                      r.users, m.calls \cup r.calls)
        ELSE Answered(apiError(400, "Update User Failed", r.error.message),
                      r.users, m.calls \cup r.calls)

updateUser(coll, id, body) ==
  updateUserAfter(checkUserExists(coll, id), coll, id, body)

\* deleteUser, behind checkUserExists
deleteUserAfter(m, coll, id) ==
  IF ~m.next
    THEN Answered(m.res, coll, m.calls)
    ELSE
      LET r == deleteUserService(coll, id) IN
      IF ~r.threw
        THEN Answered(apiSuccessNoData(200, <<"User deleted successfully">>),
                      r.users, m.calls \cup r.calls)
        ELSE Answered(apiError(500, "Server Error", <<"Failed to delete user.">>),
                      r.users, m.calls \cup r.calls)

deleteUser(coll, id) == deleteUserAfter(checkUserExists(coll, id), coll, id)

(***************************************************************************)
(* Requests to the file API                                                *)
(***************************************************************************)
\* Filenames a caller sends; <<>> is a missing (or empty) filename.
FileNames ==
  { <<>>,
    <<"n">>,
    <<".", ".", "/", "n">>,
    <<"n", "/">>,
    <<".", ".">>,
    <<".">>,
    <<"d", ".", "j", "s", "o", "n">>,
    <<"D", ".", "J", "S", "O", "N">> }

\* Contents a caller sends; <<>> is a missing (or empty) content.
Contents ==
  { <<>>,
    <<"h", "i">>,
    <<DQ, "3", DQ>> }

\* The requests of the JSON append checks: one .json name, more contents.
JsonFileNames ==
  { <<"d", ".", "j", "s", "o", "n">> }

JsonContents ==
  { <<DQ, "3", DQ>>,
    <<"[", "1", ",", "2", "]">>,
    <<DQ, "h", DQ>>,
    <<"[", DQ, "x", DQ, "]">>,
    <<"null">>,
    <<"{", "}">>,
    <<"1", "2">>,
    <<"[", "]">>,
    <<"[", "[", "1", "]", "]">>,
    <<"[", LF, " ", "7", "]">>,
    <<" ", SQ, "[", "1", "]", SQ, LF>> }

FsRequest(op, filename, content, h) ==
  /\ files' = h.files
  /\ last' = [op |-> op, filename |-> filename, content |-> content,
              status |-> h.res.status, body |-> h.res.body, paths |-> h.paths]
  /\ UNCHANGED <<users, nextId, tasks>>

CreateReq(names, contents) ==
  \E filename \in names, content \in contents :
    FsRequest("create", filename, content, routeCreate(files, filename, content))

ReadReq(names) ==
  \E filename \in names :
    FsRequest("read", filename, <<>>, routeRead(files, filename))

AppendReq(names, contents, maxLen) ==
  \E filename \in names, content \in contents :
    /\ Basename(filename) \in DOMAIN files
         => Len(files[Basename(filename)]) <= maxLen
    /\ FsRequest("append", filename, content, routeAppend(files, filename, content))

DeleteReq(names) ==
  \E filename \in names :
    FsRequest("delete", filename, <<>>, routeDelete(files, filename))

ListReq == FsRequest("list", <<>>, <<>>, routeList(files))

InfoReq(names) ==
  \E filename \in names :
    FsRequest("info", filename, <<>>, routeInfo(files, filename))

\* The requests that can be in flight at once, and a slot with none.
Tasks == {1, 2}
Idle == [pc |-> "idle"]

\* A request to a path no route matches.
UnknownUrls == {"/api/files", "/nowhere"}

UnknownRouteReq ==
  \E originalUrl \in UnknownUrls :
    FsRequest("unknownRoute", <<>>, <<>>,
              Handled(routeNotFound(originalUrl), files, {}))

\* A request whose body express.json() cannot parse.
MalformedBodyReq ==
  \E development \in BOOLEAN :
    FsRequest("malformedBody", <<>>, <<>>,
              Handled(globalErrorHandler(BodyParseError, development), files, {}))

Init ==
  /\ files = <<>>
  /\ users = <<>>
  /\ nextId = 0
  /\ last = [op |-> "none"]
  /\ tasks = [t \in Tasks |-> Idle]

\* The file API with every kind of filename.
Next ==
  \/ CreateReq(FileNames, Contents)
  \/ ReadReq(FileNames)
  \/ AppendReq(FileNames, Contents, MaxFileLen)
  \/ DeleteReq(FileNames)
  \/ ListReq
  \/ InfoReq(FileNames)
  \/ UnknownRouteReq
  \/ MalformedBodyReq

Spec == Init /\ [][Next]_vars

\* The file API on one .json file with every kind of content.
JsonNext ==
  \/ CreateReq(JsonFileNames, JsonContents)
  \/ ReadReq(JsonFileNames)
  \/ AppendReq(JsonFileNames, JsonContents, MaxJsonFileLen)
  \/ DeleteReq(JsonFileNames)

JsonSpec == Init /\ [][JsonNext]_vars

\* The file API with caller text that holds the words the routes look for
\* in error messages.
TextNames ==
  { <<"required", ".", "j", "s", "o", "n">>,
    <<"d", ".", "j", "s", "o", "n">> }

TextContents ==
  { <<"not found">>,
    <<"h", "i">>,
    <<"[", "]">> }

TextNext ==
  \/ CreateReq(TextNames, TextContents)
  \/ ReadReq(TextNames)
  \/ AppendReq(TextNames, TextContents, MaxFileLen)
  \/ DeleteReq(TextNames)

TextSpec == Init /\ [][TextNext]_vars

(***************************************************************************)
(* JSON appends in flight together                                         *)
(*                                                                         *)
(* Two PUT /append requests on one .json file that a create request has    *)
(* just written.  A request runs up to its next await of fs.promises in    *)
(* one step: fs.access, fs.readFile, the open and the write of             *)
(* fs.writeFile, fs.stat.  Each request ends with its response in its      *)
(* slot of tasks; last keeps the create request.                           *)
(***************************************************************************)
RaceFile == <<"d", ".", "j", "s", "o", "n">>

\* Contents of the create request: JSON arrays.
RaceArrays ==
  { <<"[", "]">>,
    <<"[", "5", "]">>,
    <<"[", "5", ",", "6", "]">> }

\* Payloads of the appends: valid JSON.
RacePayloads ==
  { <<"7">>,
    <<"[", "1", ",", "2", "]">>,
    <<"[", "8", ",", "9", ",", "3", "]">> }

FsRaceInit ==
  \E content \in RaceArrays :
    LET h == routeCreate(<<>>, RaceFile, content) IN
    /\ files = h.files
    /\ last = [op |-> "create", filename |-> RaceFile, content |-> content,
               status |-> h.res.status, body |-> h.res.body, paths |-> h.paths]
    /\ users = <<>>
    /\ nextId = 0
    /\ tasks = [t \in Tasks |-> Idle]

\* The request of task t ends with the answer of the route to r.
AppendDone(t, r) ==
  LET h == routeAppendAnswer(r) IN
  tasks' = [tasks EXCEPT ![t] =
              [pc |-> "done", filename |-> tasks[t].filename,
               content |-> tasks[t].content,
               status |-> h.res.status, body |-> h.res.body]]

\* router.put("/append") and appendToFile up to the return of fs.access
BeginAppend(t) ==
  \E content \in RacePayloads :
    LET cleanFilename == Basename(RaceFile)
        filePath == PathJoin(FILES_DIR, cleanFilename)
        req == [filename |-> RaceFile, content |-> content,
                cleanFilename |-> cleanFilename, filePath |-> filePath]
    IN  /\ tasks[t] = Idle
        /\ IF FsExists(files, filePath)
             THEN tasks' = [tasks EXCEPT ![t] = [pc |-> "readFile"] @@ req]
             ELSE tasks' = [tasks EXCEPT ![t] =
                    [pc |-> "done", filename |-> RaceFile, content |-> content,
                     status |-> routeAppend(files, RaceFile, content).res.status,
                     body |-> routeAppend(files, RaceFile, content).res.body]]
        /\ UNCHANGED <<files, users, nextId, last>>

\* appendToJsonFile from fs.readFile to the call of fs.writeFile
AppendRead(t) ==
  /\ tasks[t].pc = "readFile"
  /\ LET m == appendToJsonFileMerge(files[tasks[t].cleanFilename],
                                    tasks[t].content, tasks[t].cleanFilename)
     IN  IF m.threw
           THEN AppendDone(t, Threw(m.message, files, {tasks[t].filePath}))
           ELSE tasks' = [tasks EXCEPT ![t] =
                            [@ EXCEPT !.pc = "writeOpen"]
                              @@ [updatedContent |-> m.updatedContent,
                                  arrayLength |-> m.arrayLength]]
  /\ UNCHANGED <<files, users, nextId, last>>

\* fs.writeFile: the open
AppendOpen(t) ==
  /\ tasks[t].pc = "writeOpen"
  /\ files' = FsOpenTruncate(files, tasks[t].filePath)
  /\ tasks' = [tasks EXCEPT ![t].pc = "writeData"]
  /\ UNCHANGED <<users, nextId, last>>

\* fs.writeFile: the write
AppendWrite(t) ==
  /\ tasks[t].pc = "writeData"
  /\ files' = FsWriteAtStart(files, tasks[t].filePath, tasks[t].updatedContent)
  /\ tasks' = [tasks EXCEPT ![t].pc = "stat"]
  /\ UNCHANGED <<users, nextId, last>>

\* appendToJsonFile from fs.stat to the response of the route
AppendStat(t) ==
  /\ tasks[t].pc = "stat"
  /\ AppendDone(t, Returned([filename |-> tasks[t].cleanFilename,
                             arrayLength |-> tasks[t].arrayLength,
                             path |-> tasks[t].filePath],
                            files, {tasks[t].filePath}))
  /\ UNCHANGED <<files, users, nextId, last>>

FsRaceNext ==
  \E t \in Tasks :
    \/ BeginAppend(t)
    \/ AppendRead(t)
    \/ AppendOpen(t)
    \/ AppendWrite(t)
    \/ AppendStat(t)

FsRaceSpec == FsRaceInit /\ [][FsRaceNext]_vars

(***************************************************************************)
(* Creates in flight together                                              *)
(*                                                                         *)
(* Two POST /create requests for one filename, starting with no file.  A   *)
(* request runs up to its next await of fs.promises in one step:           *)
(* fs.access, then the open and the write of fs.writeFile, after which it  *)
(* answers.  Each request ends with its response in its slot of tasks.     *)
(***************************************************************************)
CreateRaceFile == <<"n">>

CreateRaceContents ==
  { <<"h", "i">>,
    <<"b", "y", "e">>,
    <<"x">> }

\* The request of task t ends with the answer of the route to r.
CreateDone(t, content, r) ==
  LET h == routeCreateAnswer(r) IN
  tasks' = [tasks EXCEPT ![t] =
              [pc |-> "done", filename |-> CreateRaceFile, content |-> content,
               status |-> h.res.status, body |-> h.res.body]]

\* router.post("/create") and createFile up to the return of fs.access
BeginCreateFile(t) ==
  \E content \in CreateRaceContents :
    LET cleanFilename == Basename(CreateRaceFile)
        filePath == PathJoin(FILES_DIR, cleanFilename)
    IN  /\ tasks[t] = Idle
        /\ IF FsExists(files, filePath)
             THEN CreateDone(t, content,
                             Threw(<<"File '">> \o cleanFilename
                                     \o <<"' ", "already exists">>,
                                   files, {filePath}))
             ELSE tasks' = [tasks EXCEPT ![t] =
                              [pc |-> "writeOpen", filename |-> CreateRaceFile,
                               content |-> content,
                               cleanFilename |-> cleanFilename,
                               filePath |-> filePath]]
        /\ UNCHANGED <<files, users, nextId, last>>

\* fs.writeFile: the open
CreateFileOpen(t) ==
  /\ tasks[t].pc = "writeOpen"
  /\ files' = FsOpenTruncate(files, tasks[t].filePath)
  /\ tasks' = [tasks EXCEPT ![t].pc = "writeData"]
  /\ UNCHANGED <<users, nextId, last>>

\* fs.writeFile: the write; createFile returns and the route answers
CreateFileWrite(t) ==
  /\ tasks[t].pc = "writeData"
  /\ files' = FsWriteAtStart(files, tasks[t].filePath, tasks[t].content)
  /\ CreateDone(t, tasks[t].content,
                Returned([filename |-> tasks[t].cleanFilename,
                          path |-> tasks[t].filePath],
                         files', {tasks[t].filePath}))
  /\ UNCHANGED <<users, nextId, last>>

CreateRaceNext ==
  \E t \in Tasks :
    \/ BeginCreateFile(t)
    \/ CreateFileOpen(t)
    \/ CreateFileWrite(t)

CreateRaceSpec == Init /\ [][CreateRaceNext]_vars

(***************************************************************************)
(* Requests to the user API                                                *)
(***************************************************************************)
EmailA == <<"a", "@", "x", ".", "io">>
EmailUpperA == <<"A", "@", "x", ".", "io">>
EmailB == <<"b", "@", "x", ".", "io">>
NotAnEmail == <<"not-an-email">>
GoodPassword == <<"p", "a", "s", "s", "w", "o", "r", "d">>
GoodPhone == <<"+", "1", "2", "3">>

ValidBody(email) ==
  [name |-> <<"A", "l">>, email |-> email, password |-> GoodPassword,
   phone |-> GoodPhone]

\* Bodies of POST /api/users
CreateBodies ==
  { ValidBody(EmailA),
    ValidBody(EmailUpperA),
    ValidBody(EmailB),
    [name |-> <<"A", "l">>, email |-> EmailB, password |-> GoodPassword,
     phone |-> GoodPhone, age |-> 30],
    ValidBody(NotAnEmail),
    [name |-> <<"A", "l">>, password |-> GoodPassword, phone |-> GoodPhone],
    [name |-> <<"A", "l">>, email |-> EmailA, password |-> <<"s", "h", "o", "r", "t">>,
     phone |-> GoodPhone],
    [name |-> <<"A">>, email |-> EmailA, password |-> GoodPassword,
     phone |-> <<"0", "1", "2">>, age |-> 121] }

\* Bodies of PUT /api/users/:id; <<>> is the empty body
UpdateBodies ==
  { <<>>,
    [name |-> <<"B", "o">>],
    [email |-> EmailB],
    [email |-> NotAnEmail],
    [password |-> <<"n", "e", "w", "p", "a", "s", "s", "1">>],
    [age |-> 0] }

\* The :id of a request: generated ids, a well-formed unknown id, a
\* malformed id.
RequestIds == {ObjectIds[1], ObjectIds[2], UnknownId, "abc"}

\* The answer a of a handler: what it leaves in the store and what it sent.
UserAnswer(op, id, body, a) ==
  /\ users' = a.users
  /\ nextId' = IF DOMAIN a.users \subseteq DOMAIN users THEN nextId ELSE nextId + 1
  /\ last' = [op |-> op, id |-> id, reqBody |-> body,
              status |-> a.res.status, body |-> a.res.body, calls |-> a.calls]
  /\ UNCHANGED files

\* A request handled with no other request in between.
UserRequest(op, id, body, a) ==
  /\ UserAnswer(op, id, body, a)
  /\ UNCHANGED tasks

CreateUserReq ==
  \E body \in CreateBodies :
    LET a == createUser(users, nextId, body) IN
    /\ a.res.status = 201 => nextId < MaxIds
    /\ UserRequest("createUser", "", body, a)

GetAllUsersReq == UserRequest("getAllUsers", "", <<>>, getAllUsers(users))

GetUserByIdReq ==
  \E id \in RequestIds :
    UserRequest("getUserById", id, <<>>, getUserById(users, id))

UpdateUserReq ==
  \E id \in RequestIds, body \in UpdateBodies :
    UserRequest("updateUser", id, body, updateUser(users, id, body))

DeleteUserReq ==
  \E id \in RequestIds :
    UserRequest("deleteUser", id, <<>>, deleteUser(users, id))

\* A request to the user application whose body express.json() cannot parse.
UserMalformedBodyReq ==
  \E development \in BOOLEAN :
    UserRequest("malformedBody", "", <<>>,
                Answered(errorHandler(BodyParseError, development), users, {}))

UserNext ==
  \/ CreateUserReq
  \/ GetAllUsersReq
  \/ GetUserByIdReq
  \/ UpdateUserReq
  \/ DeleteUserReq
  \/ UserMalformedBodyReq

UserSpec == Init /\ [][UserNext]_vars

(***************************************************************************)
(* Requests to the user API in flight together                             *)
(*                                                                         *)
(* A handler runs up to its next await of the store in one step; the store *)
(* executes each query or command atomically.  A create request awaits     *)
(* User.findOne and then User.create; update and delete requests await the *)
(* findById of checkUserExists and then their own command.                 *)
(***************************************************************************)
RaceCreateBodies ==
  { ValidBody(EmailA), ValidBody(EmailUpperA), ValidBody(EmailB) }

RaceUpdateBodies ==
  { [email |-> EmailB], [email |-> EmailUpperA] }

RaceIds == {ObjectIds[1], ObjectIds[2]}

\* Requests in flight that will insert a document if nothing stops them.
PendingCreates == Cardinality({t \in Tasks : tasks[t].pc = "createUser"})

\* createUser up to the return of User.findOne
BeginCreateUser(t) ==
  \E body \in RaceCreateBodies :
    /\ tasks[t] = Idle
    /\ nextId + PendingCreates < MaxIds
    /\ tasks' = [tasks EXCEPT ![t] =
                   [pc |-> "createUser", body |-> body,
                    existingUser |-> FindOneByEmail(users, EmailOf(body))]]
    /\ UNCHANGED <<files, users, nextId, last>>

\* createUser from there to its response
EndCreateUser(t) ==
  /\ tasks[t].pc = "createUser"
  /\ UserAnswer("createUser", "", tasks[t].body,
                createUserAnswer(createUserServiceFrom(tasks[t].existingUser,
                                                       users, nextId, tasks[t].body)))
  /\ tasks' = [tasks EXCEPT ![t] = Idle]

\* checkUserExists of a PUT /:id: it answers, or calls next()
BeginUpdateUser(t) ==
  \E id \in RaceIds, body \in RaceUpdateBodies :
    LET m == checkUserExists(users, id) IN
    /\ tasks[t] = Idle
    /\ IF m.next
         THEN /\ tasks' = [tasks EXCEPT ![t] =
                             [pc |-> "updateUser", id |-> id, body |-> body, m |-> m]]
              /\ UNCHANGED <<files, users, nextId, last>>
         ELSE UserRequest("updateUser", id, body, updateUserAfter(m, users, id, body))

\* updateUser, the controller
EndUpdateUser(t) ==
  /\ tasks[t].pc = "updateUser"
  /\ UserAnswer("updateUser", tasks[t].id, tasks[t].body,
                updateUserAfter(tasks[t].m, users, tasks[t].id, tasks[t].body))
  /\ tasks' = [tasks EXCEPT ![t] = Idle]

\* checkUserExists of a DELETE /:id
BeginDeleteUser(t) ==
  \E id \in RaceIds :
    LET m == checkUserExists(users, id) IN
    /\ tasks[t] = Idle
    /\ IF m.next
         THEN /\ tasks' = [tasks EXCEPT ![t] = [pc |-> "deleteUser", id |-> id, m |-> m]]
              /\ UNCHANGED <<files, users, nextId, last>>
         ELSE UserRequest("deleteUser", id, <<>>, deleteUserAfter(m, users, id))

\* deleteUser, the controller
EndDeleteUser(t) ==
  /\ tasks[t].pc = "deleteUser"
  /\ UserAnswer("deleteUser", tasks[t].id, <<>>,
                deleteUserAfter(tasks[t].m, users, tasks[t].id))
  /\ tasks' = [tasks EXCEPT ![t] = Idle]

UserRaceNext ==
  \E t \in Tasks :
    \/ BeginCreateUser(t)
    \/ EndCreateUser(t)
    \/ BeginUpdateUser(t)
    \/ EndUpdateUser(t)
    \/ BeginDeleteUser(t)
    \/ EndDeleteUser(t)

UserRaceSpec == Init /\ [][UserRaceNext]_vars

(***************************************************************************)
(* Vocabulary of the properties                                            *)
(***************************************************************************)
\* The entry name and the path a caller-supplied filename resolves to.
CleanName(filename) == Basename(filename)
ResolvedPath(filename) == PathJoin(FILES_DIR, Basename(filename))

\* The request carries both fields (neither missing nor empty).
HasFilename(l) == l.filename # <<>>
HasBoth(l) == l.filename # <<>> /\ l.content # <<>>

\* The name ends in ".json", whatever the case of its letters.
HasJsonSuffix(name) ==
  /\ Len(name) >= 5
  /\ name[Len(name) - 4] = "."
  /\ name[Len(name) - 3] \in {"j", "J"}
  /\ name[Len(name) - 2] \in {"s", "S"}
  /\ name[Len(name) - 1] \in {"o", "O"}
  /\ name[Len(name)] \in {"n", "N"}

\* The elements a JSON value contributes to the merged array.
Wrapped(v) == IF v.t = "arr" THEN v.a ELSE <<v>>

\* The value the code reads from an append payload.
PayloadValue(content) == JSONParse(StripQuotes(Trim(content)))

TextOneTwo == <<"[", "1", ",", "2", "]">>
TextQuotedThree == <<DQ, "3", DQ>>
TextArrayX == <<"[", DQ, "x", DQ, "]">>

(***************************************************************************)
(* C1 - every path that createFile, readFile, appendToFile and deleteFile  *)
(* hand to the filesystem is a direct child of FILES_DIR, whatever the     *)
(* caller-supplied filename ("..", ".", leading directories, trailing      *)
(* separator): never FILES_DIR itself, its parent or anything outside.     *)
(***************************************************************************)
C1_PathsAreChildrenOfBase ==
  last.op \in {"create", "read", "append", "delete"}
    => \A p \in last.paths : IsEntryPath(p)

(***************************************************************************)
(* C2 - for a valid filename and a non-empty content, when no file of that *)
(* name exists, create succeeds (201) and a read of that filename made     *)
(* right after it returns exactly the content passed to create.            *)
(***************************************************************************)
C2_CreateThenReadRoundTrip ==
  [][ ( /\ last'.op = "create"
        /\ HasBoth(last')
        /\ CleanName(last'.filename) \notin {<<>>, <<".">>, <<".", ".">>}
        /\ CleanName(last'.filename) \notin DOMAIN files )
      => ( /\ last'.status = 201
           /\ LET rd == routeRead(files', last'.filename).res
              IN  /\ rd.status = 200
                  /\ rd.body.data.content = last'.content ) ]_vars

C2_Witness ==
  /\ last.op = "create"
  /\ last.status = 201
  /\ last.filename = <<".", ".", "/", "n">>
  /\ routeRead(files, <<"n">>).res.body.data.content = last.content

(***************************************************************************)
(* C3 - a create request that carries a filename and a content, on a       *)
(* filename whose file already exists, fails with Conflict (409) and       *)
(* leaves the stored content of that file (and every other file) as it     *)
(* was, whatever the new content is.  (A request with a missing or empty   *)
(* field is answered 400 by the required-fields check.)                    *)
(***************************************************************************)
C3_CreateExistingConflicts ==
  [][ ( /\ last'.op = "create"
        /\ HasBoth(last')
        /\ CleanName(last'.filename) \in DOMAIN files )
      => ( /\ last'.status = 409
           /\ last'.body.success = FALSE
           /\ last'.body.error = "Conflict"
           /\ files' = files ) ]_vars

C3_Witness ==
  /\ last.op = "create"
  /\ last.status = 409
  /\ CleanName(last.filename) \in DOMAIN files
  /\ files[CleanName(last.filename)] # last.content

(***************************************************************************)
(* C4 - a successful append to an existing file whose name does not end in *)
(* ".json" (case-insensitively) makes the content old + new verbatim, and  *)
(* a read then returns old + new; a name ending in ".json" in any letter   *)
(* case never takes this byte-append path: it gets the JSON array merge.   *)
(***************************************************************************)
C4_AppendConcatenatesNonJson ==
  [][ (last'.op = "append" /\ last'.status = 200)
      => LET name == CleanName(last'.filename) IN
         IF HasJsonSuffix(name)
           THEN /\ "arrayLength" \in DOMAIN last'.body.data
                /\ files'[name] # files[name] \o last'.content
                /\ JSONParse(files'[name]).ok
           ELSE /\ files'[name] = files[name] \o last'.content
                /\ routeRead(files', last'.filename).res.body.data.content
                     = files[name] \o last'.content ]_vars

C4_Witness ==
  /\ last.op = "append"
  /\ last.status = 200
  /\ last.filename = <<"n">>
  /\ last.content = TextQuotedThree
  /\ files[<<"n">>] = <<"h", "i">> \o TextQuotedThree

(***************************************************************************)
(* C5 - for a .json file whose content parses to an array E and a payload  *)
(* that parses to an array N, a successful append overwrites the file with *)
(* the JSON array E followed by N, order kept, nothing dropped or          *)
(* duplicated, and reports arrayLength = length(E) + length(N); existing   *)
(* [1,2] with payload 3 gives [1,2,3] and arrayLength 3.                   *)
(***************************************************************************)
C5_JsonAppendConcatenatesArrays ==
  [][ ( /\ last'.op = "append"
        /\ last'.status = 200
        /\ HasJsonSuffix(CleanName(last'.filename)) )
      => LET name == CleanName(last'.filename)
             E == JSONParse(files[name]).val
             N == PayloadValue(last'.content).val
             after == JSONParse(files'[name])
         IN  /\ (E.t = "arr" /\ N.t = "arr")
                  => /\ after.ok
                     /\ after.val = JArr(E.a \o N.a)
                     /\ last'.body.data.arrayLength = Len(E.a) + Len(N.a)
             /\ (files[name] = TextOneTwo /\ last'.content = TextQuotedThree)
                  => /\ after.ok
                     /\ after.val = JArr(<<JNum(1), JNum(2), JNum(3)>>)
                     /\ last'.body.data.arrayLength = 3 ]_vars

C5_Witness ==
  /\ last.op = "append"
  /\ last.status = 200
  /\ last.content = TextArrayX
  /\ last.body.data.arrayLength = 3
  /\ JSONParse(files[CleanName(last.filename)]).val
       = JArr(<<JNum(1), JNum(2), JStr(<<"x">>)>>)

(***************************************************************************)
(* C6 - in a JSON append a parsed value that is not an array (number,      *)
(* string, object, null), on the existing or on the incoming side, is      *)
(* wrapped in a one-element array and an array is used as it is, never     *)
(* nested: existing "hello" appended with ["x"] yields ["hello","x"].      *)
(* So after any successful JSON append the file content is a JSON array.   *)
(***************************************************************************)
C6_JsonAppendWrapsNonArrays ==
  [][ ( /\ last'.op = "append"
        /\ last'.status = 200
        /\ HasJsonSuffix(CleanName(last'.filename)) )
      => LET name == CleanName(last'.filename)
             cur == JSONParse(files[name]).val
             new == PayloadValue(last'.content).val
             after == JSONParse(files'[name])
         IN  /\ after.ok
             /\ after.val.t = "arr"
             /\ after.val.a = Wrapped(cur) \o Wrapped(new)
             /\ cur.t # "arr" => after.val.a[1] = cur
             /\ new.t # "arr" => after.val.a[Len(after.val.a)] = new ]_vars

C6_Witness ==
  /\ last.op = "append"
  /\ last.status = 200
  /\ last.content = TextArrayX
  /\ JSONParse(files[CleanName(last.filename)]).val
       = JArr(<<JStr(<<"h">>), JStr(<<"x">>)>>)

(***************************************************************************)
(* C7 - PUT /append on an existing .json file answers 400 when the         *)
(* existing content is not valid JSON (InvalidFormat) and when the payload *)
(* is not valid JSON after trimming and quote stripping (InvalidContent).  *)
(***************************************************************************)
C7_InvalidJsonAnswers400 ==
  [][ ( /\ last'.op = "append"
        /\ HasBoth(last')
        /\ CleanName(last'.filename) \in DOMAIN files
        /\ HasJsonSuffix(CleanName(last'.filename))
        /\ \/ ~JSONParse(files[CleanName(last'.filename)]).ok
           \/ ~PayloadValue(last'.content).ok )
      => last'.status = 400 ]_vars

(***************************************************************************)
(* C8 - an append request that carries a filename and a content, on a      *)
(* filename that resolves to no existing file, fails with NotFound (404),  *)
(* for .json and other names alike, and creates nothing: the set of files  *)
(* and their contents are unchanged.                                       *)
(***************************************************************************)
C8_AppendMissingIsNotFound ==
  [][ ( /\ last'.op = "append"
        /\ HasBoth(last')
        /\ ~FsExists(files, ResolvedPath(last'.filename)) )
      => ( /\ last'.status = 404
           /\ last'.body.success = FALSE
           /\ DOMAIN files' = DOMAIN files
           /\ files' = files ) ]_vars

C8_Witness ==
  /\ last.op = "append"
  /\ last.status = 404
  /\ HasJsonSuffix(CleanName(last.filename))
  /\ CleanName(last.filename) \notin DOMAIN files
  /\ <<"n">> \in DOMAIN files

(***************************************************************************)
(* C9 - after a successful delete of a filename, every read, append and    *)
(* delete of that filename fails with NotFound (404) until a create of it  *)
(* succeeds.  Stated step by step: a successful delete leaves no file of   *)
(* that name and a read made right after it answers 404; while no file of  *)
(* a name exists, every read, append and delete of it answers 404; and a   *)
(* file of that name exists again only after a create of it answered 201.  *)
(***************************************************************************)
C9_DeletedStaysNotFound ==
  [][ /\ (last'.op = "delete" /\ last'.status = 200)
           => /\ CleanName(last'.filename) \notin DOMAIN files'
              /\ routeRead(files', last'.filename).res.status = 404
      /\ ( /\ last'.op \in {"read", "append", "delete"}
           /\ IF last'.op = "append" THEN HasBoth(last') ELSE HasFilename(last')
           /\ ~FsExists(files, ResolvedPath(last'.filename)) )
           => last'.status = 404
      /\ \A name \in DOMAIN files' \ DOMAIN files :
           /\ last'.op = "create"
           /\ last'.status = 201
           /\ CleanName(last'.filename) = name ]_vars

C9_Witness ==
  /\ last.op = "delete"
  /\ last.status = 200
  /\ CleanName(last.filename) \notin DOMAIN files
  /\ routeRead(files, last.filename).res.status = 404
  /\ routeAppend(files, last.filename, <<"h", "i">>).res.status = 404
  /\ routeDelete(files, last.filename).res.status = 404

(***************************************************************************)
(* C10 - POST /api/users with an email that an existing user record        *)
(* already has fails with Conflict (409) and adds no record: list returns  *)
(* as many records after the request as before it.                         *)
(***************************************************************************)
C10_DuplicateEmailConflicts ==
  [][ ( /\ last'.op = "createUser"
        /\ "email" \in DOMAIN last'.reqBody
        /\ \E id \in DOMAIN users : users[id].email = last'.reqBody.email )
      => ( /\ last'.status = 409
           /\ Cardinality(DOMAIN getAllUsers(users').res.body.data)
                = Cardinality(DOMAIN getAllUsers(users).res.body.data) ) ]_vars

(***************************************************************************)
(* C11 - POST /api/users with a body whose email is not a valid email      *)
(* address ("not-an-email") is rejected with 400 before any call to the    *)
(* backing store is made (no find, no insert), and no record is added.     *)
(***************************************************************************)
C11_InvalidEmailRejectedBeforeStore ==
  [][ ( /\ last'.op = "createUser"
        /\ "email" \in DOMAIN last'.reqBody
        /\ last'.reqBody.email = NotAnEmail )
      => ( /\ last'.status = 400
           /\ last'.calls = {}
           /\ users' = users ) ]_vars

(***************************************************************************)
(* C12 - PUT /api/users/:id with an empty body for an existing user fails  *)
(* validation with 400, performs no update on the store and never answers  *)
(* 200.                                                                    *)
(***************************************************************************)
C12_EmptyUpdateFailsValidation ==
  [][ ( /\ last'.op = "updateUser"
        /\ DOMAIN last'.reqBody = {}
        /\ last'.id \in DOMAIN users )
      => ( /\ last'.status = 400
           /\ "findByIdAndUpdate" \notin last'.calls
           /\ users' = users ) ]_vars

(***************************************************************************)
(* C13 - GET, PUT and DELETE on /api/users/:id with an id that is not a    *)
(* well-formed store identifier each answer 400 (Invalid ID), make no call *)
(* to the backing store and never reach the controller (the middleware     *)
(* does not call next), so the collection is unchanged.                    *)
(***************************************************************************)
C13_MalformedIdRejectedFirst ==
  [][ ( /\ last'.op \in {"getUserById", "updateUser", "deleteUser"}
        /\ ~IsValidObjectId(last'.id) )
      => ( /\ last'.status = 400
           /\ last'.body.error = "Invalid ID"
           /\ last'.calls = {}
           /\ ~checkUserExists(users, last'.id).next
           /\ users' = users ) ]_vars

\* A malformed id was sent while the collection holds a record, and the same
\* id is answered 400 on the three routes.
C13_Witness ==
  /\ last.op = "deleteUser"
  /\ ~IsValidObjectId(last.id)
  /\ last.status = 400
  /\ last.calls = {}
  /\ users # <<>>
  /\ getUserById(users, last.id).res.status = 400
  /\ \A body \in UpdateBodies : updateUser(users, last.id, body).res.status = 400

(***************************************************************************)
(* C14 - GET, PUT and DELETE on /api/users/:id with a well-formed id that  *)
(* matches no stored record each answer 404 (Not Found), never 500 or 400, *)
(* and leave the user collection unchanged.                                *)
(***************************************************************************)
C14_UnknownIdIsNotFound ==
  [][ ( /\ last'.op \in {"getUserById", "updateUser", "deleteUser"}
        /\ IsValidObjectId(last'.id)
        /\ last'.id \notin DOMAIN users )
      => ( /\ last'.status = 404
           /\ users' = users ) ]_vars

(***************************************************************************)
(* C15 - In every state reachable by any interleaving of user create,      *)
(* update and delete requests (two creates with the same email in flight   *)
(* together, an update that sets an email another record holds), no two    *)
(* stored user records have the same email; the store enforces its unique  *)
(* index atomically per insert and per update.                             *)
(***************************************************************************)
C15_EmailsAreUnique ==
  \A i \in DOMAIN users, j \in DOMAIN users :
    i # j => users[i].email # users[j].email

\* A create passed the findOne pre-check and was then rejected by the unique
\* index (E11000, answered 409): another request inserted the email between.
C15_Witness ==
  /\ last.op = "createUser"
  /\ last.status = 409
  /\ last.calls = {"findOne", "create"}
  /\ \E id \in DOMAIN users :
       users[id].email = ApplySetters("email", last.reqBody.email)
  /\ Cardinality(DOMAIN users) = 1

(***************************************************************************)
(* C16 - In every state reachable by user create and update requests, the  *)
(* password stored in each user record is a bcrypt hash and never the      *)
(* plaintext the caller sent, for records written by create and for        *)
(* records whose fields are written by PUT /:id.                           *)
(***************************************************************************)
C16_StoredPasswordsAreHashed ==
  \A id \in DOMAIN users :
    /\ users[id].password # <<>>
    /\ Head(users[id].password) = Head(HashPassword(<<>>))

(***************************************************************************)
(* C17 - No response of the user API (create, list, getById, update,       *)
(* delete) contains the password field of a user record, hashed or         *)
(* plaintext.                                                              *)
(***************************************************************************)
C17_NoPasswordInResponses ==
  ( /\ last.op \in {"createUser", "getAllUsers", "getUserById",
                    "updateUser", "deleteUser"}
    /\ "data" \in DOMAIN last.body )
  => IF last.op = "getAllUsers"
       THEN \A id \in DOMAIN last.body.data :
              "password" \notin DOMAIN last.body.data[id]
       ELSE "password" \notin DOMAIN last.body.data

(***************************************************************************)
(* C18 - Every response of both APIs has the envelope shape: a success     *)
(* response carries success=true, message, timestamp and statusCode; an    *)
(* error response (those of the global error handlers and of the catch-all *)
(* for unrecognized paths included) carries success=false, error, message, *)
(* timestamp and statusCode; statusCode equals the HTTP status.            *)
(***************************************************************************)
C18_EnvelopeShape ==
  last.op # "none"
  => /\ {"success", "message", "timestamp", "statusCode"} \subseteq DOMAIN last.body
     /\ last.body.success = (last.status < 400)
     /\ ~last.body.success => "error" \in DOMAIN last.body
     /\ last.body.statusCode = last.status

(***************************************************************************)
(* C19 - After any sequence of create, append and delete calls, list()     *)
(* returns exactly one entry per file that was successfully created and    *)
(* not since deleted, with count equal to that number: the listing is      *)
(* empty at the start, a successful create adds the entry of its file, a   *)
(* successful delete removes it, every other call (failed ones included)   *)
(* leaves the listing as it was, and a list request answers the listing    *)
(* of the directory as it is.                                              *)
(***************************************************************************)
Listing(fls) == routeList(fls).res.body.data

C19_ListReflectsDirectory ==
  /\ (files = <<>> => Listing(files) = [count |-> 0, files |-> {}])
  /\ [][ LET before == Listing(files).files
             after == Listing(files').files
             name == CleanName(last'.filename)
         IN  /\ Listing(files').count = Cardinality(after)
             /\ IF last'.op = "create" /\ last'.status = 201
                  THEN name \notin before /\ after = before \cup {name}
                ELSE IF last'.op = "delete" /\ last'.status = 200
                  THEN name \in before /\ after = before \ {name}
                ELSE after = before
             /\ last'.op = "list"
                  => /\ last'.status = 200
                     /\ last'.body.data = Listing(files) ]_vars

\* A list request answered the two entries of the directory, one of them a
\* .json file.
C19_Witness ==
  /\ last.op = "list"
  /\ last.status = 200
  /\ last.body.data.count = 2
  /\ last.body.data.files = {<<"n">>, <<"d", ".", "j", "s", "o", "n">>}
  /\ DOMAIN files = last.body.data.files

(***************************************************************************)
(* C20 - When two JSON appends to the same existing .json file, whose      *)
(* content is a valid JSON array E, run concurrently, then in every final  *)
(* state (both answered 200) the file is a valid JSON array that starts    *)
(* with the elements of E followed by the elements of at least one of the  *)
(* two payloads.                                                           *)
(***************************************************************************)
IsPrefix(p, s) == Len(p) <= Len(s) /\ SubSeq(s, 1, Len(p)) = p

C20_RacingAppendsKeepValidArray ==
  (\A t \in Tasks : tasks[t].pc = "done" /\ tasks[t].status = 200)
  => LET E == JSONParse(last.content).val.a
         now == JSONParse(files[RaceFile])
     IN  /\ now.ok
         /\ now.val.t = "arr"
         /\ \E t \in Tasks :
              IsPrefix(E \o Wrapped(PayloadValue(tasks[t].content).val), now.val.a)

(***************************************************************************)
(* C21 - For every append payload that is valid JSON text, optionally      *)
(* surrounded by whitespace, a JSON append on a .json file holding valid   *)
(* JSON succeeds and appends exactly the value that the JSON text denotes; *)
(* this includes a payload that is a JSON string literal such as "hello".  *)
(***************************************************************************)
C21_ValidJsonPayloadsAreAppended ==
  [][ ( /\ last'.op = "append"
        /\ HasBoth(last')
        /\ CleanName(last'.filename) \in DOMAIN files
        /\ HasJsonSuffix(CleanName(last'.filename))
        /\ JSONParse(files[CleanName(last'.filename)]).ok
        /\ JSONParse(Trim(last'.content)).ok )
      => LET name == CleanName(last'.filename)
             cur == JSONParse(files[name]).val
             denoted == JSONParse(Trim(last'.content)).val
             after == JSONParse(files'[name])
         IN  /\ last'.status = 200
             /\ after.ok
             /\ after.val = JArr(Wrapped(cur) \o Wrapped(denoted)) ]_vars

(***************************************************************************)
(* C22 - When two DELETE /api/users/:id requests for the same existing     *)
(* record run concurrently, each doing an existence check and then a       *)
(* delete, one answers 200 and the other 404: a delete whose existence     *)
(* check found the record answers 200 and removes it when the record is    *)
(* still there, answers 404 when another request removed it in between,    *)
(* and never answers 500.                                                  *)
(***************************************************************************)
C22_RacingDeletesAnswerOnce ==
  [][ \A t \in Tasks :
        ( /\ tasks[t].pc = "deleteUser"
          /\ tasks'[t] = Idle )
        => IF tasks[t].id \in DOMAIN users
             THEN /\ last'.status = 200
                  /\ DOMAIN users' = DOMAIN users \ {tasks[t].id}
             ELSE /\ last'.status = 404
                  /\ users' = users ]_vars

(***************************************************************************)
(* C23 - The HTTP status of a file API failure depends only on the kind of *)
(* failure (missing field, file already exists, file not found, invalid    *)
(* JSON) and not on the characters of the caller-supplied filename or      *)
(* content: on PUT /append an invalid-JSON payload containing the text     *)
(* "not found", or a .json file named "required.json", gets the same       *)
(* status as any other invalid-JSON append.                                *)
(***************************************************************************)
\* The status of an invalid-JSON append whose texts hold none of the words.
InvalidJsonStatus ==
  routeAppend([n \in {RaceFile} |-> <<"[", "]">>], RaceFile, <<"h", "i">>).res.status

C23_StatusDependsOnKindOnly ==
  [][ /\ ( /\ last'.op = "append"
           /\ HasBoth(last') )
        => LET name == CleanName(last'.filename) IN
           IF name \notin DOMAIN files THEN last'.status = 404
           ELSE IF \/ ~JSONParse(files[name]).ok
                   \/ ~PayloadValue(last'.content).ok
             THEN last'.status = InvalidJsonStatus
           ELSE last'.status = 200
      /\ ( /\ last'.op = "create"
           /\ HasBoth(last') )
        => IF CleanName(last'.filename) \in DOMAIN files
             THEN last'.status = 409
             ELSE last'.status = 201
      /\ ( /\ last'.op \in {"create", "append"}
           /\ ~HasBoth(last') )
        => last'.status = 400 ]_vars

(***************************************************************************)
(* C24 - A JSON append that fails (file not found, existing content not    *)
(* valid JSON, or incoming payload not valid JSON) leaves the file content *)
(* exactly as it was before the call: no failed append writes to the file. *)
(***************************************************************************)
C24_FailedJsonAppendWritesNothing ==
  [][ ( /\ last'.op = "append"
        /\ HasBoth(last')
        /\ HasJsonSuffix(CleanName(last'.filename))
        /\ \/ CleanName(last'.filename) \notin DOMAIN files
           \/ ~JSONParse(files[CleanName(last'.filename)]).ok
           \/ ~PayloadValue(last'.content).ok )
      => ( /\ last'.status # 200
           /\ files' = files ) ]_vars

\* An append with a payload that is not valid JSON failed on a file holding
\* a JSON array, and the file still holds that array.
C24_Witness ==
  /\ last.op = "append"
  /\ last.status # 200
  /\ ~PayloadValue(last.content).ok
  /\ CleanName(last.filename) \in DOMAIN files
  /\ JSONParse(files[CleanName(last.filename)]).ok
  /\ JSONParse(files[CleanName(last.filename)]).val.t = "arr"
  /\ Len(JSONParse(files[CleanName(last.filename)]).val.a) = 2

(***************************************************************************)
(* C25 - When two create calls for the same filename, with no such file    *)
(* beforehand, run concurrently, each doing an existence check and then a  *)
(* write, at most one of them reports success, and the file content        *)
(* afterwards is the content of the call that reported success.            *)
(***************************************************************************)
C25_RacingCreatesOneSucceeds ==
  (\A t \in Tasks : tasks[t].pc = "done")
  => LET succeeded == {t \in Tasks : tasks[t].status = 201}
     IN  /\ Cardinality(succeeded) <= 1
         /\ \A t \in succeeded : files[CreateRaceFile] = tasks[t].content

====
